---------------------------- MODULE Spec2Model ----------------------------
(***************************************************************************)
(* The value-function visualisation pipeline of marladona-isaac-lab:       *)
(*   - the producer: main() of scripts/rsl_rl/play.py, the play loop that  *)
(*     steps the environment and puts (world_state, scaled_values) tuples  *)
(*     on a multiprocessing queue;                                          *)
(*   - the channel: the mp.Queue() created in main();                      *)
(*   - the renderer: ValuePlotter of isaaclab_marl/utils/value_plotter.py, *)
(*     run in a child process, whose timer callback call_back drains the   *)
(*     queue and draws the last item.                                      *)
(*                                                                         *)
(* Numbers: lengths are in hundredths of a metre, memory usage in tenths   *)
(* of a percent, and every real number a tensor holds is a fraction        *)
(* <<numerator, denominator>> that is never reduced.  The queue is a FIFO  *)
(* whose put, empty and get are atomic.                                    *)
(***************************************************************************)
EXTENDS Integers, Sequences, FiniteSets, TLC

(***************************************************************************)
(* Bounds of the model.                                                    *)
(***************************************************************************)
\* value_plotter.py:15 sets RESOLUTION = 80; the model sweeps a coarser grid.
RESOLUTION == 2
\* Iterations of the play loop that step the environment.
MaxSteps == 5
\* Largest VISUALIZATION_INTERVAL the loop specification tries.
MaxInterval == 3
\* Largest --video_length the loop specification tries.
MaxVideoLength == 3
\* Largest num_agents_per_team, NUM_OF_PLAYERS_TO_VISUALIZE and
\* len(PLOT_VALUE_FUNC_LIST) the sampler specification tries.
MaxAgents == 3
MaxPlayers == 3
MaxTerms == 2
\* Items a client of ValuePlotter puts on the queue in the plotter specification.
MaxPuts == 5

(***************************************************************************)
(* Program constants.                                                      *)
(***************************************************************************)
VISUALIZE_VALUE_FUN == TRUE
NUM_OF_PLAYERS_TO_VISUALIZE == 3
VISUALIZATION_INTERVAL == 2
PLOT_VALUE_FUNC_LIST == <<"base_own_pose_w", "ball_pos_w">>
VISUALIZE_ENV == 0
\* --video_length default
DefaultVideoLength == 200
\* mp.Queue() is mp.Queue(maxsize=0): no capacity bound
queue_maxsize == 0
\* psutil.virtual_memory().percent > 90, in tenths of a percent
MemoryThreshold == 900
\* SCALING = 0.6 as a ratio
ScalingNum == 6
ScalingDen == 10
\* self.border_offset = 0.5, self.field_length = 4.5 * SCALING,
\* self.field_width = 3 * SCALING (hundredths of a metre)
border_offset == 50
field_length == (450 * ScalingNum) \div ScalingDen
field_width == (300 * ScalingNum) \div ScalingDen
\* self.goal_width = 1.2 * SCALING, self.goal_depth = 0.1
goal_width == (120 * ScalingNum) \div ScalingDen
goal_depth == 10
\* lines 89-96: the proportions of the boxes and of the centre circle
GOAL_SCALE_Y == <<22, 60>>
GOAL_SCALE_X == <<39, 45>>
CIRCLE_SCALE == <<75, 450>>
PENALTY_SCALE_Y == <<4, 6>>
PENALTY_SCALE_X == <<285, 450>>

(***************************************************************************)
(* Values of the environment.                                              *)
(***************************************************************************)
\* psutil.virtual_memory().percent, in tenths of a percent: 50.0, 90.0 and 91.0
MemLevels == {500, 900, 910}

Min(a, b) == IF a < b THEN a ELSE b
Max(a, b) == IF a > b THEN a ELSE b

Range(s) == {s[i] : i \in 1..Len(s)}

RECURSIVE Concat(_)
\* torch.cat / np.concatenate along the only axis: a sequence of sequences, joined
Concat(ss) == IF ss = <<>> THEN <<>> ELSE Head(ss) \o Concat(Tail(ss))

(***************************************************************************)
(* Python sequence operations.                                             *)
(***************************************************************************)
\* a slice bound: negative counts from the end, and it is clamped to [0, len]
PyBound(len, i) == IF i < 0 THEN Max(len + i, 0) ELSE Min(i, len)

\* s[a:b] of a 0-based sequence
PySlice(s, a, b) == SubSeq(s, PyBound(Len(s), a) + 1, PyBound(Len(s), b))

\* s[a:] of a 0-based sequence
PySliceFrom(s, a) == SubSeq(s, PyBound(Len(s), a) + 1, Len(s))

\* tensor.view(rows, cols) of a flat tensor: row-major
View(s, rows, cols) == [r \in 1..rows |-> [c \in 1..cols |-> s[(r - 1) * cols + c]]]

\* ndarray.ravel() / flatten() of a matrix: row-major
Ravel(m) == Concat(m)

(***************************************************************************)
(* The environment: what env.step and env.get_observations hand out.  The  *)
(* state of the simulated world after w steps is world number w.           *)
(***************************************************************************)
\* obs_dict["world_state"]["world_state"][0]: 3n blue pose entries, 3n red
\* pose entries, 2 ball entries; entry i of world w is the number 100 * w + i
WorldState(n, w) == [i \in 1..(3 * n + 3 * n + 2) |-> 100 * w + i]

\* one row of torch.cat([obs_dict["critic"], obs_dict["neighbor_critic"]], dim=-1):
\* agent a (0-based) in world w, two entries per term and one neighbour entry
CriticObs(w, a, t) == [d \in 1..(2 * t + 1) |-> <<(w + a + d) % 3, 1>>]

\* _group_obs_slice_pos["critic"][term][0]: where term j (1-based) starts, 0-based
ObsSliceStart(j) == 2 * (j - 1)

\* env.unwrapped.env_data.num_agents_per_env: both teams of one environment
NumAgentsPerEnv(n) == 2 * n

RECURSIVE SumNum(_)
SumNum(row) == IF row = <<>> THEN 0 ELSE Head(row)[1] + SumNum(Tail(row))

\* ppo_runner.get_inference_critic: one scalar per observation row.  The network
\* is a parameter of the run: a constant one, or one that depends on its input,
\* with values above or below zero.
Critic(kind, row) == IF kind = "const" THEN 0 ELSE (SumNum(row) % 11) - 5

(***************************************************************************)
(* ValuePlotter.__init__: the sweep grid.                                  *)
(***************************************************************************)
NORMALIZE_EVALUATOR == FALSE

\* n points from lo in steps of (hi - lo) / n, which stop short of hi
LinSpaceOpen(lo, hi, n) == [i \in 1..n |-> <<lo * n + (i - 1) * (hi - lo), n>>]

\* np.linspace(lo, hi, n): point i (1-based) is lo + (i-1)(hi-lo)/(n-1)
LinSpace(lo, hi, n) == [i \in 1..n |-> <<lo * (n - 1) + (i - 1) * (hi - lo), n - 1>>]

\* the first argument of np.meshgrid: the width axis
LinWidth(norm) ==
    IF norm
    THEN LinSpace(-100, 100, RESOLUTION)
    ELSE LinSpace(-(((300 + border_offset) * ScalingNum) \div ScalingDen),
                  ((300 + border_offset) * ScalingNum) \div ScalingDen, RESOLUTION)

\* the second argument of np.meshgrid: the length axis
LinLength(norm) ==
    IF norm
    THEN LinSpace(-100, 100, RESOLUTION)
    ELSE LinSpace(-(((450 + border_offset) * ScalingNum) \div ScalingDen),
                  ((450 + border_offset) * ScalingNum) \div ScalingDen, RESOLUTION)

\* y, x = np.meshgrid(LinWidth, LinLength): both of shape (RESOLUTION, RESOLUTION),
\* y[i][j] = LinWidth[j] and x[i][j] = LinLength[i]
plotter_y(norm) == [i \in 1..RESOLUTION |-> [j \in 1..RESOLUTION |-> LinWidth(norm)[j]]]
plotter_x(norm) == [i \in 1..RESOLUTION |-> [j \in 1..RESOLUTION |-> LinLength(norm)[i]]]

\* self.z = x * 0.0 + 0.5
plotter_z == [i \in 1..RESOLUTION |-> [j \in 1..RESOLUTION |-> <<1, 2>>]]

\* self.num_players_to_visualize = min(num_of_players_to_visualize, num_agents_per_team)
num_players_to_visualize(p, n) == Min(p, n)

(***************************************************************************)
(* play.py: the sampler and the normalisation.                             *)
(***************************************************************************)
\* x = torch.tensor(value_plotter.x).unsqueeze(0).flatten(); x /= field_length
sweep_x(norm) ==
    LET x == Ravel(plotter_x(norm))
    IN  [c \in 1..(RESOLUTION * RESOLUTION) |-> <<x[c][1], x[c][2] * field_length>>]
\* y = torch.tensor(value_plotter.y).unsqueeze(0).flatten(); y /= field_width
sweep_y(norm) ==
    LET y == Ravel(plotter_y(norm))
    IN  [c \in 1..(RESOLUTION * RESOLUTION) |-> <<y[c][1], y[c][2] * field_width>>]

\* row c of obs_grid for term j: the agent's row with the term's two entries
\* overwritten by point c of the sweep
ObsGridRow(obs, j, c, x, y) ==
    [obs EXCEPT ![ObsSliceStart(j) + 1] = x[c],
                ![ObsSliceStart(j) + 2] = y[c]]

\* obs_grid for one (term, player): RESOLUTION^2 copies of the agent's row with
\* the term's two entries overwritten by the sweep
ObsGrid(obs, j, x, y) ==
    [c \in 1..(RESOLUTION * RESOLUTION) |-> ObsGridRow(obs, j, c, x, y)]

\* actor_slice[k] (k 0-based)
ActorSlice(k, n) == k + VISUALIZE_ENV * NumAgentsPerEnv(n)

\* the column z = critic(obs_grid) of term j (1-based) and player k (0-based)
ValueColumn(kind, w, n, t, j, k, x, y) ==
    LET obs_grid == ObsGrid(CriticObs(w, ActorSlice(k, n), t), j, x, y)
    IN  [c \in 1..(RESOLUTION * RESOLUTION) |-> Critic(kind, obs_grid[c])]

\* The storage behind each tensor of compute_all_value_fun.  The tensors of
\* obs_dict belong to the environment (line 105)
EnvStorages == {<<"critic", 0, 0>>, <<"neighbor_critic", 0, 0>>}

\* line 112, torch.cat([...], dim=-1): a new tensor in storage of its own, made
\* once per term
CatStorage(j) == <<"cat", j, 0>>

\* line 112, [actor_slice]: indexing with a tensor copies the rows it selects
IndexStorage(s, j) == <<"index", j, 0>>

\* line 114, critic_obs[j], and line 115, .unsqueeze(0): views of their tensor
ViewStorage(s) == s

\* an expand in place of the repeat: a view of the row it is given
ExpandStorage(s, j, k) == s

\* line 115, .repeat(RESOLUTION**2, 1): a new tensor in storage of its own
RepeatStorage(s, j, k) == <<"repeat", j, k>>

\* the storage of critic_obs for term j (1-based)
CriticObsStorage(j) == IndexStorage(CatStorage(j), j)

\* the storage of obs_grid for term j (1-based) and player k (0-based), into
\* which lines 117 and 118 write
ObsGridStorage(j, k) ==
    RepeatStorage(ViewStorage(ViewStorage(CriticObsStorage(j))), j, k)

\* players the sampler loops over: range(NUM_OF_PLAYERS_TO_VISUALIZE)
SamplerPlayers(p, n) == p

\* lines 117-118: the writes of compute_all_value_fun in the order it makes
\* them, terms outermost: which tensor each obs_grid was made of, and the
\* storage the grid coordinates went into
SamplerWrites(n, p, t) ==
    [col \in 1..(t * SamplerPlayers(p, n)) |->
        LET j == ((col - 1) \div SamplerPlayers(p, n)) + 1
            k == (col - 1) % SamplerPlayers(p, n)
        IN  [term |-> j, player |-> k, source |-> CriticObsStorage(j),
             storage |-> ObsGridStorage(j, k)]]

\* compute_all_value_fun: the columns of values, in the order torch.cat(dim=1)
\* gives them: terms outermost, players innermost
compute_all_value_fun(kind, w, n, p, t, x, y) ==
    [col \in 1..(t * SamplerPlayers(p, n)) |->
        ValueColumn(kind, w, n, t, ((col - 1) \div SamplerPlayers(p, n)) + 1,
                    (col - 1) % SamplerPlayers(p, n), x, y)]

RECURSIVE SeqMax(_)
SeqMax(s) == IF Len(s) = 1 THEN s[1] ELSE Max(Head(s), SeqMax(Tail(s)))
RECURSIVE SeqMin(_)
SeqMin(s) == IF Len(s) = 1 THEN s[1] ELSE Min(Head(s), SeqMin(Tail(s)))

\* a scaling that divides by the range but forgets to subtract the minimum
ScaleColumnNoShift(z) ==
    View([c \in 1..Len(z) |-> <<z[c], SeqMax(z) - SeqMin(z)>>], RESOLUTION, RESOLUTION)

\* (z - min_value) / (max_value - min_value) of one column, as a
\* RESOLUTION x RESOLUTION matrix of fractions; a zero denominator is numpy's nan
ScaleColumn(z) ==
    LET max_value == SeqMax(z)
        min_value == SeqMin(z)
    IN  View([c \in 1..Len(z) |-> <<z[c] - min_value, max_value - min_value>>],
             RESOLUTION, RESOLUTION)

\* prepare_value_fun_plot(values, num_of_players): t is len(PLOT_VALUE_FUNC_LIST)
prepare_value_fun_plot(values, num_of_players, t) ==
    [j \in 1..(num_of_players * t) |-> ScaleColumn(values[j])]

\* the sentinel, and the tuple (ego_world_state_agent, scaled_values) that line
\* 225 puts; seq numbers the puts and is not part of the tuple
NoneItem == [kind |-> "None", seq |-> 0, ws |-> <<>>, values |-> <<>>, live |-> FALSE]

\* a tuple whose tensor is the environment's current world state, whatever
\* .cpu() did
TupleOfLiveState(s, ego_world_state_agent, scaled_values, shared) ==
    [kind |-> "msg", seq |-> s, ws |-> ego_world_state_agent, values |-> scaled_values,
     live |-> TRUE]

\* live: ws is no copy but shares its storage with a tensor of the environment
Tuple(s, ego_world_state_agent, scaled_values, shared) ==
    [kind |-> "msg", seq |-> s, ws |-> ego_world_state_agent, values |-> scaled_values,
     live |-> shared]

\* lines 219 and 221: values and scaled_values as they are before line 226
Sampled(kind, w, n, p, t, x, y) ==
    LET values == compute_all_value_fun(kind, w, n, p, t, x, y)
    IN  [values |-> values, scaled_values |-> prepare_value_fun_plot(values, p, t),
         writes |-> SamplerWrites(n, p, t)]

\* lines 219-225: the tuple of a sample taken in world state w, sent by value
Message(s, kind, w, n, p, t, x, y) ==
    Tuple(s, WorldState(n, w), Sampled(kind, w, n, p, t, x, y).scaled_values, FALSE)

\* line 223, ego_world_state[0].cpu(): a view of row 0, copied to the CPU unless
\* the tensor is on the CPU already, where .cpu() returns the view itself
CpuCopies(dev) == dev # "cpu"

\* the tuple's tensor is the memory the environment writes: a view on the CPU
\* of the tensor of an environment whose step writes the new world state into
\* the tensor it returned before
Shared(dev, in_place) == ~CpuCopies(dev) /\ in_place

\* the entries of the world state (of n agents per team) that env.step has yet
\* to write when it has written those of `done`
Unwritten(n, done) == (1..(3 * n + 3 * n + 2)) \ done

\* What a read of the tuple's tensor finds when the world is in state w and the
\* running env.step has written the entries `done` of state w + 1.  A tensor
\* that shares the storage of the environment's buffer shows what the
\* environment has written since (queue.put pickles in its feeder thread, later,
\* and torch hands a CPU tensor to the other process as shared memory).  The
\* two processes do not synchronise, and env.step writes the entries one at a
\* time in no fixed order, so the reads of the plotter find any mix of the
\* entries of w and of w + 1 in which no entry goes back to w.
TensorRead(item, n, w, done) ==
    IF ~item.live THEN item.ws
    ELSE [e \in 1..(3 * n + 3 * n + 2) |->
             IF e \in done THEN WorldState(n, w + 1)[e] ELSE WorldState(n, w)[e]]

(***************************************************************************)
(* ValuePlotter.plot_value_fun: what one call computes and sets.           *)
(***************************************************************************)
\* the red slice taken two entries late: ego_world_state[3 * n + 2 :]
red_pos_w_late(ws, n) == View(PySliceFrom(ws, 3 * n + 2), n, 3)

\* ego_world_state[3 * n : -2].view(n, 3)
red_pos_w(ws, n) == View(PySlice(ws, 3 * n, -2), n, 3)

\* ego_world_state[: 3 * n].view(n, 3)
blue_pos_w(ws, n) == View(PySlice(ws, 0, 3 * n), n, 3)

\* ego_world_state[-2:]
ball_pos_w(ws) == PySliceFrom(ws, -2)

\* m[:, :2]
Cols2(m) == [r \in 1..Len(m) |-> PySlice(m[r], 0, 2)]

\* i = k + j * self.num_players_to_visualize for the artist of row j, column k
\* (both 0-based), as a pair <<j, k>> for artist i (0-based)
ArtistTerm(i, npv) == i \div npv
ArtistPlayer(i, npv) == i % npv

\* a plot_value_fun that stops after the subplots of the first term
PlottedFirstRow(ws, values, n, npv, t) ==
    [pcolormeshes |-> [i \in 1..(t * npv) |->
                          IF i <= npv THEN Ravel(values[i]) ELSE Ravel(plotter_z)],
     scatters |-> [i \in 1..(t * npv) |->
                      IF i <= npv THEN PySlice(ball_pos_w(ws), 0, 2) ELSE <<>>],
     scatterOthers |->
        [i \in 1..(t * npv) |->
            IF i <= npv
            THEN PySlice(blue_pos_w(ws, n)[ArtistPlayer(i - 1, npv) + 1], 0, 2)
            ELSE <<>>],
     scatterBs |-> [i \in 1..(t * npv) |->
                       IF i <= npv THEN Cols2(blue_pos_w(ws, n)) ELSE <<>>],
     scatterRs |-> [i \in 1..(t * npv) |->
                       IF i <= npv THEN Cols2(red_pos_w(ws, n)) ELSE <<>>],
     lines |-> [i \in 1..(t * npv) |->
                   IF i <= npv THEN blue_pos_w(ws, n) \o red_pos_w(ws, n) ELSE <<>>]]

\* the artists' data after plot_value_fun(ego_world_state, values)
PlottedArtists(ws, values, n, npv, t) ==
    [pcolormeshes |-> [i \in 1..(t * npv) |-> Ravel(values[i])],
     scatters |-> [i \in 1..(t * npv) |-> PySlice(ball_pos_w(ws), 0, 2)],
     scatterOthers |->
        [i \in 1..(t * npv) |->
            PySlice(blue_pos_w(ws, n)[ArtistPlayer(i - 1, npv) + 1], 0, 2)],
     scatterBs |-> [i \in 1..(t * npv) |-> Cols2(blue_pos_w(ws, n))],
     scatterRs |-> [i \in 1..(t * npv) |-> Cols2(red_pos_w(ws, n))],
     lines |-> [i \in 1..(t * npv) |-> blue_pos_w(ws, n) \o red_pos_w(ws, n)]]

\* The places where one iteration of the loop of lines 322-357 fetches data
\* from ego_world_state (lines 319-321 only make views), by the artist that
\* gets the data: markers (324), the ball (329), the blue team (331), the red
\* team (332), agent_pose (333)
PlotReads == <<"scatterOthers", "scatters", "scatterBs", "scatterRs", "lines">>

\* the data artist `name` of subplot i (1-based) gets from a tensor that reads
\* as ws
ArtistData(name, ws, values, i, n, npv, t) ==
    PlottedArtists(ws, values, n, npv, t)[name][i]

\* a length times one of the proportions
Scaled(v, f) == (v * f[1]) \div f[2]

\* lines 218-241: the three segments of the goal on side s (1 or -1)
GoalLines(s) ==
    <<(<<(<<s * (field_length + goal_depth), -goal_width>>),
         (<<s * (field_length + goal_depth), goal_width>>)>>),
      (<<(<<s * field_length, -goal_width>>),
         (<<s * (field_length + goal_depth), -goal_width>>)>>),
      (<<(<<s * field_length, goal_width>>),
         (<<s * (field_length + goal_depth), goal_width>>)>>)>>

\* lines 243-247: the goal lines, the halfway line and the touch lines
OutlineLines ==
    <<(<<(<<field_length, -field_width>>), (<<field_length, field_width>>)>>),
      (<<(<<0, -field_width>>), (<<0, field_width>>)>>),
      (<<(<<-field_length, -field_width>>), (<<-field_length, field_width>>)>>),
      (<<(<<field_length, field_width>>), (<<-field_length, field_width>>)>>),
      (<<(<<field_length, -field_width>>), (<<-field_length, -field_width>>)>>)>>

\* lines 248-295: the three segments of a box on side s with proportions fx, fy
BoxLines(s, fx, fy) ==
    <<(<<(<<s * Scaled(field_length, fx), -Scaled(field_width, fy)>>),
         (<<s * Scaled(field_length, fx), Scaled(field_width, fy)>>)>>),
      (<<(<<s * field_length, -Scaled(field_width, fy)>>),
         (<<s * Scaled(field_length, fx), -Scaled(field_width, fy)>>)>>),
      (<<(<<s * field_length, Scaled(field_width, fy)>>),
         (<<s * Scaled(field_length, fx), Scaled(field_width, fy)>>)>>)>>

\* lines 216-296: the segments of fieldLineCollection, in hundredths of a metre
FieldLines ==
    GoalLines(1) \o GoalLines(-1) \o OutlineLines
    \o BoxLines(1, GOAL_SCALE_X, GOAL_SCALE_Y)
    \o BoxLines(1, PENALTY_SCALE_X, PENALTY_SCALE_Y)
    \o BoxLines(-1, GOAL_SCALE_X, GOAL_SCALE_Y)
    \o BoxLines(-1, PENALTY_SCALE_X, PENALTY_SCALE_Y)

\* lines 206-209: the radius of the centre circle
FieldCircleRadius == Scaled(field_length, CIRCLE_SCALE)

\* the artists reset_plot creates: the mesh shows self.z, the collections are empty
ResetArtists(npv, t) ==
    [pcolormeshes |-> [i \in 1..(t * npv) |-> Ravel(plotter_z)],
     scatters |-> [i \in 1..(t * npv) |-> <<>>],
     scatterOthers |-> [i \in 1..(t * npv) |-> <<>>],
     scatterBs |-> [i \in 1..(t * npv) |-> <<>>],
     scatterRs |-> [i \in 1..(t * npv) |-> <<>>],
     lines |-> [i \in 1..(t * npv) |-> <<>>]]

\* the lists __init__ creates
NoArtists ==
    [pcolormeshes |-> <<>>, scatters |-> <<>>, scatterOthers |-> <<>>,
     scatterBs |-> <<>>, scatterRs |-> <<>>, lines |-> <<>>]

(***************************************************************************)
(* value_plotter.py: the choice of the GUI backend, made when the module   *)
(* is imported.                                                            *)
(***************************************************************************)
\* the letters of a backend's name, as matplotlib.get_backend() returns it
BackendChars(name) ==
    CASE name = "Qt5Agg" -> <<"Q", "t", "5", "A", "g", "g">>
      [] name = "QtAgg" -> <<"Q", "t", "A", "g", "g">>
      [] name = "TkAgg" -> <<"T", "k", "A", "g", "g">>
      [] name = "WXAgg" -> <<"W", "X", "A", "g", "g">>
      [] name = "GTK3Agg" -> <<"G", "T", "K", "3", "A", "g", "g">>
      [] name = "TkCairo" -> <<"T", "k", "C", "a", "i", "r", "o">>
      [] name = "Agg" -> <<"A", "g", "g">>
      [] name = "pdf" -> <<"p", "d", "f">>
      [] OTHER -> <<>>

\* str.lower()
LowerChar(c) ==
    CASE c = "Q" -> "q" [] c = "A" -> "a" [] c = "T" -> "t" [] c = "W" -> "w"
      [] c = "X" -> "x" [] c = "G" -> "g" [] c = "K" -> "k" [] c = "C" -> "c"
      [] OTHER -> c
Lower(s) == [i \in 1..Len(s) |-> LowerChar(s[i])]

\* keyword in current
Contains(s, keyword) ==
    \E i \in 1..(Len(s) - Len(keyword) + 1) :
        SubSeq(s, i, i + Len(keyword) - 1) = keyword

\* line 47: gui_keywords
gui_keywords ==
    <<(<<"q", "t">>), (<<"t", "k">>), (<<"w", "x">>), (<<"g", "t", "k">>),
      (<<"m", "a", "c", "o", "s", "x">>)>>

\* a test that takes every backend for a GUI backend
AnyBackendIsGui(name) == TRUE

\* lines 67-68: any(keyword in current for keyword in gui_keywords), current
\* being matplotlib.get_backend().lower()
NameIsGui(name) ==
    \E k \in 1..Len(gui_keywords) : Contains(Lower(BackendChars(name)), gui_keywords[k])

\* the toolkit whose window a backend opens; "none" for a backend that draws
\* to memory or to a file
Toolkit(name) ==
    CASE name \in {"Qt5Agg", "QtAgg"} -> "qt"
      [] name \in {"TkAgg", "TkCairo"} -> "tk"
      [] name = "WXAgg" -> "wx"
      [] name = "GTK3Agg" -> "gtk"
      [] OTHER -> "none"

\* the backends that need a toolkit, a display and so on, and may fail to load
GuiBackends == {"Qt5Agg", "QtAgg", "TkAgg", "WXAgg", "GTK3Agg", "TkCairo"}

\* the backends matplotlib can always load
HeadlessBackends == {"Agg", "pdf"}

\* values of MPLBACKEND with which line 19 imports matplotlib: unset or empty,
\* a headless backend, GUI backends on and off the fixed list (a name
\* matplotlib does not know ends the import with ValueError)
EnvBackends == {"", "Agg", "pdf", "TkCairo", "Qt5Agg", "GTK3Agg"}

\* lines 48-58: candidates, each with the binding its checker looks for
Candidates(env_backend) ==
    (IF env_backend # "" THEN <<[backend |-> env_backend, checker |-> "None"]>> ELSE <<>>)
    \o <<[backend |-> "Qt5Agg", checker |-> "qt"],
         [backend |-> "QtAgg", checker |-> "qt"],
         [backend |-> "TkAgg", checker |-> "tk"],
         [backend |-> "WXAgg", checker |-> "wx"],
         [backend |-> "GTK3Agg", checker |-> "gtk"]>>

\* line 61: checker is not None and not checker()
CheckerFails(candidate, avail) ==
    candidate.checker # "None" /\ candidate.checker \notin avail

\* lines 63-66: matplotlib.use(backend, force=True) does not raise
UseSucceeds(name, usable) == name \in HeadlessBackends \/ name \in usable

(***************************************************************************)
(* The state.                                                              *)
(***************************************************************************)
VARIABLES
    \* the configuration of the run
    N,                  \* env_data.num_agents_per_team
    P,                  \* NUM_OF_PLAYERS_TO_VISUALIZE
    T,                  \* len(PLOT_VALUE_FUNC_LIST)
    K,                  \* VISUALIZATION_INTERVAL
    video,              \* args_cli.video
    video_length,       \* args_cli.video_length
    critic,             \* which critic network the checkpoint holds
    device,             \* args_cli.device: where the environment's tensors live
    env_in_place,       \* env.step writes world_state into the tensor it returned before
    normalize,          \* NORMALIZE_EVALUATOR
    gui,                \* _force_gui_backend: its inputs, its position, its outcome
    \* the environment
    world,              \* the number of env.step calls made: the world's state
    written,            \* the entries of the next world state the running env.step has written
    mem,                \* psutil.virtual_memory().percent, in tenths of a percent
    \* main() of play.py
    ppc,                \* where main() is
    timestep,
    sim_step_counter,
    exit_path,          \* how the play loop ended: "none", "app", "video", "memory"
    \* the channel, a multiprocessing.Queue
    buffer,             \* items put and not yet written to the pipe by the feeder thread
    queue,              \* items in the pipe: what queue.empty() and queue.get() see
    \* the ValuePlotter process
    rpc,                \* where __call__ / call_back is
    last_item,          \* call_back's local
    terminated,         \* terminate() has closed the figures
    artists,            \* the data of the artists of every subplot
    plot_locals,        \* the locals of the latest plot_value_fun call
    plot_pos,           \* reads of ego_world_state the running plot_value_fun has made
    geometry,           \* what reset_plot has drawn for good: mesh coordinates, field lines
    \* history
    pushed,             \* queue.put calls made so far
    high_steps,         \* env.step calls made since memory usage last rose above 90%
    created,            \* how often init_plot and reset_plot have built their objects
    sample,             \* what lines 219-221 computed last (the locals are None after 227)
    tick,               \* what the current (or latest) call_back has seen and done
    rendered,           \* the messages passed to plot_value_fun so far, in call order
    draw_after_close    \* plot_value_fun has run after terminate()

vars == <<N, P, T, K, video, video_length, critic, device, env_in_place, normalize, gui, world, written, mem, ppc, timestep,
          sim_step_counter, exit_path, buffer, queue, rpc, last_item, terminated, artists,
          plot_locals, pushed, sample, high_steps, tick, draw_after_close, created, geometry,
          rendered, plot_pos>>

config == <<N, P, T, K, video, video_length, critic, device, env_in_place, normalize, gui>>
producer == <<ppc, timestep, sim_step_counter, exit_path, world, written, pushed, sample>>
renderer == <<rpc, last_item, terminated, artists, plot_locals, draw_after_close, created,
              geometry, rendered, plot_pos>>

\* the seq numbers of the items of a queue, 0 for the sentinel
Seqs(q) == [i \in 1..Len(q) |-> q[i].seq]

\* start: the items in the pipe when the call started; seen: those and the
\* items written to the pipe while the drain loop ran; put: the items put and
\* not yet taken when the call started and those put while the drain loop ran;
\* pushed, arrived: a put returned, an item reached the pipe, during the call
NoTick == [start |-> <<>>, seen |-> <<>>, put |-> <<>>, got |-> <<>>, draws |-> <<>>,
           pushed |-> FALSE, arrived |-> FALSE, drain_end |-> -1]

\* values = None, scaled_values = None
NoSample == [values |-> <<>>, scaled_values |-> <<>>, writes |-> <<>>]

\* reset_plot has not run
NoGeometry == [x |-> <<>>, y |-> <<>>, fieldLines |-> <<>>, fieldcircle |-> 0]

\* _force_gui_backend has returned with the first backend of its list
ImportedGui ==
    [env_backend |-> "", avail |-> {"qt", "tk", "wx", "gtk"}, usable |-> GuiBackends,
     i |-> 1, used |-> <<"Qt5Agg">>, current |-> "Qt5Agg", outcome |-> "returned"]

\* the options as shipped: the default device of the launcher, the flag of
\* value_plotter.py line 16
ShippedOptions ==
    /\ device = "cuda"
    /\ env_in_place = FALSE
    /\ normalize = NORMALIZE_EVALUATOR
    /\ gui = ImportedGui

\* nothing built yet: no figure with its subplots, no artists
NotCreated == [figure |-> 0, artists |-> 0]

NoLocals == [ego_world_state |-> <<>>, blue_pos_w |-> <<>>, red_pos_w |-> <<>>,
             ball_pos_w |-> <<>>]

\* the state once main() has started the plotter process and reached line 202
InitCommon ==
    /\ world = 0
    /\ written = {}
    /\ mem \in MemLevels
    /\ timestep = 0
    /\ sim_step_counter = 0
    /\ exit_path = "none"
    /\ buffer = <<>>
    /\ queue = <<>>
    /\ rpc = "start"
    /\ last_item = NoneItem
    /\ terminated = FALSE
    /\ artists = NoArtists
    /\ plot_locals = NoLocals
    /\ pushed = 0
    /\ sample = NoSample
    /\ high_steps = 0
    /\ tick = NoTick
    /\ draw_after_close = FALSE
    /\ created = NotCreated
    /\ geometry = NoGeometry
    /\ rendered = <<>>
    /\ plot_pos = 0

\* the play loop under every interval and video setting, the rest as shipped
Init ==
    /\ InitCommon
    /\ ShippedOptions
    /\ ppc = "while"
    /\ N = MaxAgents
    /\ P = NUM_OF_PLAYERS_TO_VISUALIZE
    /\ T = Len(PLOT_VALUE_FUNC_LIST)
    /\ K \in 1..MaxInterval
    /\ video \in BOOLEAN
    /\ video_length \in IF video THEN 0..MaxVideoLength ELSE {DefaultVideoLength}
    /\ critic = "sum"

(***************************************************************************)
(* main() of play.py, lines 202-235.                                       *)
(***************************************************************************)
\* a queue made with maxsize=1
FullBounded(q) == Len(q) >= 1

\* queue.put blocks only while a queue made with maxsize > 0 is full
Full(q) == queue_maxsize > 0 /\ Len(q) >= queue_maxsize

\* the guard one step late
VideoDoneLate(t, len) == t = len + 1

\* line 215: timestep == args_cli.video_length
VideoDone(t, len) == t = len

\* the cadence counted from 1
IsVisualizationStepFromOne(c, k) == (c + 1) % k = 0 /\ VISUALIZE_VALUE_FUN

\* line 218: sim_step_counter % VISUALIZATION_INTERVAL == 0 and VISUALIZE_VALUE_FUN
IsVisualizationStep(c, k) == c % k = 0 /\ VISUALIZE_VALUE_FUN

\* the guard with >= 90
MemoryHighOrEqual(m) == m >= MemoryThreshold

\* line 229: psutil.virtual_memory().percent > 90
MemoryHigh(m) == m > MemoryThreshold

\* line 203: while simulation_app.is_running()
PLoopCheck ==
    /\ ppc = "while"
    /\ \E running \in BOOLEAN :
          IF running
          THEN /\ world < MaxSteps
               /\ ppc' = "step"
               /\ UNCHANGED exit_path
          ELSE /\ ppc' = "close"
               /\ exit_path' = "app"
    /\ UNCHANGED <<config, sample, mem, timestep, sim_step_counter, world, written, pushed, queue, buffer,
                   renderer, high_steps, tick>>

\* lines 205-211: policy(obs) and env.step(actions).  An environment that
\* writes the world state into memory the plotter reads makes a step for every
\* entry it writes, and a last one when env.step returns; every other
\* environment makes the whole call in one step, as nothing can see it midway.
PEnvStep ==
    /\ ppc = "step"
    /\ IF Shared(device, env_in_place) /\ Unwritten(N, written) # {}
       THEN /\ \E e \in Unwritten(N, written) : written' = written \cup {e}
            /\ UNCHANGED <<world, high_steps, ppc>>
       ELSE /\ world' = world + 1
            /\ written' = {}
            /\ high_steps' = IF mem > MemoryThreshold THEN high_steps + 1 ELSE 0
            /\ ppc' = "video"
    /\ UNCHANGED <<config, sample, mem, timestep, sim_step_counter, exit_path, pushed, queue, buffer,
                   renderer, tick>>

\* lines 212-216: the video guard
PVideoGuard ==
    /\ ppc = "video"
    /\ IF video
       THEN /\ timestep' = timestep + 1
            /\ IF VideoDone(timestep + 1, video_length)
               THEN ppc' = "close" /\ exit_path' = "video"
               ELSE ppc' = "vis" /\ UNCHANGED exit_path
       ELSE /\ ppc' = "vis"
            /\ UNCHANGED <<timestep, exit_path>>
    /\ UNCHANGED <<config, sample, mem, sim_step_counter, world, written, pushed, queue, buffer, renderer,
                   high_steps, tick>>

\* what a put that returns while call_back runs adds to the history of that
\* call: the item is in the buffer, where the call cannot see it
TickAfterPut(s) ==
    IF rpc = "drain"
    THEN [tick EXCEPT !.put = Append(@, s), !.pushed = TRUE]
    ELSE IF rpc \in {"after_loop", "plot"} THEN [tick EXCEPT !.pushed = TRUE] ELSE tick

\* what an item written to the pipe while call_back runs adds to the history of
\* that call
TickAfterFeed(s) ==
    IF rpc = "drain"
    THEN [tick EXCEPT !.seen = Append(@, s), !.arrived = TRUE]
    ELSE IF rpc \in {"after_loop", "plot"} THEN [tick EXCEPT !.arrived = TRUE] ELSE tick

\* lines 218-227: sample, normalise and put
PVisualize ==
    /\ ppc = "vis"
    /\ IF IsVisualizationStep(sim_step_counter, K)
       THEN /\ ~Full(queue \o buffer)
            /\ LET sampled == Sampled(critic, world, N, P, T,
                                      sweep_x(normalize), sweep_y(normalize))
               IN  /\ buffer' = Append(buffer, Tuple(pushed + 1, WorldState(N, world),
                                                      sampled.scaled_values,
                                                      Shared(device, env_in_place)))
                   /\ sample' = sampled
            /\ pushed' = pushed + 1
            /\ tick' = TickAfterPut(pushed + 1)
            /\ ppc' = "mem"
       ELSE /\ ppc' = "inc"
            /\ UNCHANGED <<buffer, pushed, sample, tick>>
    /\ UNCHANGED <<config, mem, timestep, sim_step_counter, exit_path, world, written, queue,
                   renderer, high_steps>>

\* line 225, the other half of queue.put: put has only appended the tuple to a
\* buffer of the putting process; the queue's feeder thread, which runs beside
\* main() (or beside the client), pickles the oldest buffered item and writes it
\* to the pipe, where the plotter process finds it
Feeder ==
    /\ buffer # <<>>
    /\ queue' = Append(queue, Head(buffer))
    /\ buffer' = Tail(buffer)
    /\ tick' = TickAfterFeed(Head(buffer).seq)
    /\ UNCHANGED <<config, producer, mem, renderer, high_steps>>

\* lines 229-231: the memory guard
PMemCheck ==
    /\ ppc = "mem"
    /\ IF MemoryHigh(mem)
       THEN ppc' = "close" /\ exit_path' = "memory"
       ELSE ppc' = "inc" /\ UNCHANGED exit_path
    /\ UNCHANGED <<config, sample, mem, timestep, sim_step_counter, world, written, pushed, queue, buffer,
                   renderer, high_steps, tick>>

\* line 232: sim_step_counter += 1
PIncrement ==
    /\ ppc = "inc"
    /\ sim_step_counter' = sim_step_counter + 1
    /\ ppc' = "while"
    /\ UNCHANGED <<config, sample, mem, timestep, exit_path, world, written, pushed, queue, buffer, renderer,
                   high_steps, tick>>

\* line 235: env.close()
PClose ==
    /\ ppc = "close"
    /\ ppc' = "done"
    /\ UNCHANGED <<config, sample, mem, timestep, sim_step_counter, exit_path, world, written, pushed,
                   queue, buffer, renderer, high_steps, tick>>

\* the host's memory usage changes while the loop runs
MemChange ==
    /\ ppc \notin {"close", "done", "client"}
    /\ \E m \in MemLevels \ {mem} :
          /\ mem' = m
          /\ high_steps' = IF m > MemoryThreshold /\ mem > MemoryThreshold
                           THEN high_steps ELSE 0
    /\ UNCHANGED <<config, producer, queue, buffer, renderer, tick>>

(***************************************************************************)
(* ValuePlotter.__call__ and call_back, value_plotter.py lines 360-387.    *)
(***************************************************************************)
\* an if in place of the while: at most one get per call
DrainOnce(q) == q # <<>> /\ tick.got = <<>>

\* line 366: while not self.queue.empty()
DrainLoopCond(q) == q # <<>>

\* the first item kept in place of the last
KeepFirstItem(prev, item) == IF prev.kind = "None" THEN item ELSE prev

\* line 371: last_item = item
KeepItem(prev, item) == item

\* line 380: self.init_plot()
RInitPlot ==
    /\ rpc = "start"
    /\ rpc' = "init_plot"
    /\ created' = [created EXCEPT !.figure = @ + 1]
    /\ UNCHANGED <<config, geometry, producer, mem, queue, buffer, last_item, terminated, artists,
                   plot_locals, draw_after_close, rendered, plot_pos, high_steps, tick>>

\* lines 381-384: the timer is created and started
RTimerStart ==
    /\ rpc = "init_plot"
    /\ rpc' = "timer"
    /\ UNCHANGED <<config, created, geometry, producer, mem, queue, buffer, last_item, terminated, artists,
                   plot_locals, draw_after_close, rendered, plot_pos, high_steps, tick>>

\* lines 386-387: reset_plot creates the artists, plt.show() runs the event loop
RResetPlot ==
    /\ rpc = "timer"
    /\ artists' = ResetArtists(num_players_to_visualize(P, N), T)
    /\ created' = [created EXCEPT !.artists = @ + 1]
    /\ geometry' = [x |-> plotter_x(normalize), y |-> plotter_y(normalize),
                    fieldLines |-> FieldLines, fieldcircle |-> FieldCircleRadius]
    /\ rpc' = "show"
    /\ UNCHANGED <<config, producer, mem, queue, buffer, last_item, terminated, plot_locals,
                   draw_after_close, rendered, plot_pos, high_steps, tick>>

\* an event loop that dispatches timer events as soon as the timer is started
EventLoopFromTimerStart(pc) == pc \in {"timer", "show"}

\* lines 384-387: the callback of a started timer is dispatched by the GUI event
\* loop, which runs inside plt.show() and nowhere in reset_plot
EventLoopRunning(pc) == pc = "show"

\* a call_back that starts with the item its previous call ended with
LastItemKept(prev) == prev

\* line 365: last_item = None, whatever the previous call left
LastItemAtEntry(prev) == NoneItem

\* lines 363-365: the timer fires and call_back starts
RTick ==
    /\ EventLoopRunning(rpc)
    /\ rpc' = "drain"
    /\ last_item' = LastItemAtEntry(last_item)
    /\ tick' = [NoTick EXCEPT !.start = Seqs(queue), !.seen = Seqs(queue),
                              !.put = Seqs(queue \o buffer)]
    /\ UNCHANGED <<config, created, geometry, producer, mem, queue, buffer, terminated, artists, plot_locals,
                   draw_after_close, rendered, plot_pos, high_steps>>

\* lines 366-371: one iteration of the drain loop
RDrainGet ==
    /\ rpc = "drain"
    /\ DrainLoopCond(queue)
    /\ queue # <<>>
    /\ queue' = Tail(queue)
    /\ UNCHANGED buffer
    /\ tick' = [tick EXCEPT !.got = Append(@, Head(queue).seq)]
    /\ IF Head(queue).kind = "None"
       THEN /\ terminated' = TRUE
            /\ rpc' = "after_loop"
            /\ UNCHANGED last_item
       ELSE /\ last_item' = KeepItem(last_item, Head(queue))
            /\ UNCHANGED <<terminated, rpc>>
    /\ UNCHANGED <<config, created, geometry, producer, mem, artists, plot_locals, draw_after_close, rendered, plot_pos,
                   high_steps>>

\* line 366: the drain loop finds the queue empty and ends
RDrainEnd ==
    /\ rpc = "drain"
    /\ ~DrainLoopCond(queue)
    /\ rpc' = "after_loop"
    /\ tick' = [tick EXCEPT !.drain_end = Len(queue)]
    /\ UNCHANGED <<config, created, geometry, producer, mem, queue, buffer, last_item, terminated, artists,
                   plot_locals, draw_after_close, rendered, plot_pos, high_steps>>

\* where call_back is once plot_value_fun has returned: back in the event
\* loop, which plt.show() leaves once every figure is closed
Returned(closed) == IF closed THEN "exited" ELSE "show"

\* one read of plot_value_fun from a tensor that shares the environment's
\* memory: read number plot_pos + 1, of subplot plot_pos \div 5 + 1.  The reads
\* are made whenever the plotter gets to them, wherever main() is: env.step may
\* write between two reads, and any number of reads fall into one env.step.
PlotRead ==
    LET npv == num_players_to_visualize(P, N)
        i == (plot_pos \div Len(PlotReads)) + 1
        name == PlotReads[(plot_pos % Len(PlotReads)) + 1]
        ws == TensorRead(last_item, N, world, written)
        read == [artists EXCEPT
                    ![name][i] = ArtistData(name, ws, last_item.values, i, N, npv, T)]
    IN  /\ artists' = IF name = "scatters"
                       THEN [read EXCEPT !.pcolormeshes[i] = Ravel(last_item.values[i])]
                       ELSE read
        /\ plot_pos' = IF plot_pos + 1 = Len(PlotReads) * T * npv THEN 0 ELSE plot_pos + 1
        /\ rpc' = IF plot_pos + 1 = Len(PlotReads) * T * npv
                  THEN Returned(terminated) ELSE "plot"
        /\ UNCHANGED <<plot_locals, tick, draw_after_close, rendered>>

\* lines 372-375 and 317-358: plot the last item, if any, and return to the
\* event loop.  A tuple that was put by value is plotted in one step: no other
\* process sees the artists or can change the tuple.  The tensor of a tuple that
\* shares the environment's memory is read once per artist and subplot, a step
\* each; of such a tensor the locals of lines 319-321 are views and hold no data.
\* Nothing reads last_item again before line 365 assigns it in the next call.
RAfterLoop ==
    /\ rpc \in {"after_loop", "plot"}
    /\ IF rpc = "plot"
       THEN PlotRead
       ELSE IF last_item.kind # "None"
       THEN /\ tick' = [tick EXCEPT !.draws = Append(@, last_item.seq)]
            /\ rendered' = Append(rendered, last_item.seq)
            /\ draw_after_close' = (draw_after_close \/ terminated)
            /\ IF last_item.live
               THEN /\ plot_locals' = NoLocals
                    /\ rpc' = "plot"
                    /\ UNCHANGED <<artists, plot_pos>>
               ELSE /\ artists' = PlottedArtists(last_item.ws, last_item.values, N,
                                                 num_players_to_visualize(P, N), T)
                    /\ plot_locals' = [ego_world_state |-> last_item.ws,
                                       blue_pos_w |-> blue_pos_w(last_item.ws, N),
                                       red_pos_w |-> red_pos_w(last_item.ws, N),
                                       ball_pos_w |-> ball_pos_w(last_item.ws)]
                    /\ rpc' = Returned(terminated)
                    /\ UNCHANGED plot_pos
       ELSE /\ rpc' = Returned(terminated)
            /\ UNCHANGED <<artists, plot_locals, tick, draw_after_close, rendered, plot_pos>>
    /\ UNCHANGED <<config, created, geometry, producer, mem, queue, buffer, last_item,
                   terminated, high_steps>>

Producer ==
    \/ PLoopCheck
    \/ PEnvStep
    \/ PVideoGuard
    \/ PVisualize
    \/ PMemCheck
    \/ PIncrement
    \/ PClose

Renderer ==
    \/ RInitPlot
    \/ RTimerStart
    \/ RResetPlot
    \/ RTick
    \/ RDrainGet
    \/ RDrainEnd
    \/ RAfterLoop

Next == Producer \/ Feeder \/ MemChange \/ Renderer

Spec == Init /\ [][Next]_vars

\* The plotter process is scheduled: __call__ runs on, the interval timer of
\* lines 382-384 fires every 25 ms while plt.show() runs the event loop, and a
\* call_back that has started runs to its return.  Nothing is assumed of main().
FairRenderer == WF_vars(Renderer)

\* The feeder thread of the queue is scheduled: what line 225 has put is written
\* to the pipe (the thread is joined when the putting process exits).
FairFeeder == WF_vars(Feeder)

\* the play loop at the interval as shipped, under every video setting
InitFair ==
    /\ InitCommon
    /\ ShippedOptions
    /\ ppc = "while"
    /\ N = MaxAgents
    /\ P = NUM_OF_PLAYERS_TO_VISUALIZE
    /\ T = Len(PLOT_VALUE_FUNC_LIST)
    /\ K = VISUALIZATION_INTERVAL
    /\ video \in BOOLEAN
    /\ video_length \in IF video THEN 0..MaxVideoLength ELSE {DefaultVideoLength}
    /\ critic = "sum"

SpecFair == InitFair /\ [][Next]_vars /\ FairRenderer /\ FairFeeder

(***************************************************************************)
(* The sampler specification: the same loop under every team size, player  *)
(* count, term count and critic, with the interval as shipped and memory   *)
(* usage steady.  The observation tensors hold a row for every agent the   *)
(* sampler indexes.                                                        *)
(***************************************************************************)
InitSampler ==
    /\ InitCommon
    /\ ShippedOptions
    /\ ppc = "while"
    /\ N \in 1..MaxAgents
    /\ P \in 1..MaxPlayers
    /\ T \in 1..MaxTerms
    /\ K = VISUALIZATION_INTERVAL
    /\ video = FALSE
    /\ video_length = DefaultVideoLength
    /\ critic \in {"sum", "const"}
    /\ ~MemoryHigh(mem)
    /\ \A m \in MemLevels : ~MemoryHigh(m) => m <= mem

\* memory usage stays at the level the run started with
NextSampler == Producer \/ Feeder \/ Renderer

SpecSampler == InitSampler /\ [][NextSampler]_vars

(***************************************************************************)
(* The options specification: the loop as shipped, with the plotter's      *)
(* normalisation flag either way and on either device.  env.step returns   *)
(* its observations (line 211 binds obs_dict anew in every iteration); on  *)
(* a CUDA device, where line 223 copies, the environment may as well write *)
(* them into the tensors it returned before.                               *)
(***************************************************************************)
InitOptions ==
    /\ InitCommon
    /\ ppc = "while"
    /\ N = MaxAgents
    /\ P = NUM_OF_PLAYERS_TO_VISUALIZE
    /\ T = Len(PLOT_VALUE_FUNC_LIST)
    /\ K = VISUALIZATION_INTERVAL
    /\ video = FALSE
    /\ video_length = DefaultVideoLength
    /\ critic = "sum"
    /\ device \in {"cuda", "cpu"}
    /\ env_in_place \in BOOLEAN
    /\ ~Shared(device, env_in_place)
    /\ normalize \in BOOLEAN
    /\ gui = ImportedGui
    /\ ~MemoryHigh(mem)
    /\ \A m \in MemLevels : ~MemoryHigh(m) => m <= mem

SpecOptions == InitOptions /\ [][NextSampler]_vars

(***************************************************************************)
(* The backend specification: the import of value_plotter.py, line 80,     *)
(* under every value of MPLBACKEND, every set of installed bindings and    *)
(* every set of GUI backends that matplotlib manages to load.              *)
(***************************************************************************)
InitBackend ==
    /\ InitCommon
    /\ ppc = "import"
    /\ N = MaxAgents
    /\ P = NUM_OF_PLAYERS_TO_VISUALIZE
    /\ T = Len(PLOT_VALUE_FUNC_LIST)
    /\ K = VISUALIZATION_INTERVAL
    /\ video = FALSE
    /\ video_length = DefaultVideoLength
    /\ critic = "sum"
    /\ device = "cuda"
    /\ env_in_place = FALSE
    /\ normalize = NORMALIZE_EVALUATOR
    /\ \E env_backend \in EnvBackends, avail \in SUBSET {"qt", "tk", "wx", "gtk"},
          usable \in SUBSET GuiBackends :
          gui = [env_backend |-> env_backend, avail |-> avail, usable |-> usable,
                 i |-> 1, used |-> <<>>, current |-> "", outcome |-> "running"]

\* lines 60-69: one pass of the loop over the candidates
GuiTry ==
    /\ gui.outcome = "running"
    /\ gui.i <= Len(Candidates(gui.env_backend))
    /\ LET candidate == Candidates(gui.env_backend)[gui.i]
       IN  IF CheckerFails(candidate, gui.avail)
           THEN gui' = [gui EXCEPT !.i = @ + 1]
           ELSE IF ~UseSucceeds(candidate.backend, gui.usable)
           THEN gui' = [gui EXCEPT !.i = @ + 1, !.used = Append(@, candidate.backend)]
           ELSE IF NameIsGui(candidate.backend)
           THEN gui' = [gui EXCEPT !.used = Append(@, candidate.backend),
                                   !.current = candidate.backend,
                                   !.outcome = "returned"]
           ELSE gui' = [gui EXCEPT !.i = @ + 1, !.used = Append(@, candidate.backend),
                                   !.current = candidate.backend]
    /\ UNCHANGED <<N, P, T, K, video, video_length, critic, device, env_in_place,
                   normalize, producer, renderer, mem, queue, buffer, high_steps, tick>>

\* lines 71-77: the loop has run out of candidates
GuiRaise ==
    /\ gui.outcome = "running"
    /\ gui.i > Len(Candidates(gui.env_backend))
    /\ gui' = [gui EXCEPT !.outcome = "raised"]
    /\ UNCHANGED <<N, P, T, K, video, video_length, critic, device, env_in_place,
                   normalize, producer, renderer, mem, queue, buffer, high_steps, tick>>

NextBackend == GuiTry \/ GuiRaise

SpecBackend == InitBackend /\ [][NextBackend]_vars

(***************************************************************************)
(* The plotter specification: ValuePlotter.__call__(queue) with any client *)
(* on the other end of the queue, one that puts tuples and sentinels in    *)
(* any order.                                                              *)
(***************************************************************************)
InitPlotter ==
    /\ InitCommon
    /\ ShippedOptions
    /\ ppc = "client"
    /\ N = MaxAgents
    /\ P = NUM_OF_PLAYERS_TO_VISUALIZE
    /\ T = Len(PLOT_VALUE_FUNC_LIST)
    /\ K = VISUALIZATION_INTERVAL
    /\ video = FALSE
    /\ video_length = DefaultVideoLength
    /\ critic = "sum"

\* the client puts a (world_state, values) tuple
ClientPut ==
    /\ ppc = "client"
    /\ pushed < MaxPuts
    /\ buffer' = Append(buffer, Message(pushed + 1, critic, pushed + 1, N, P, T,
                                         sweep_x(normalize), sweep_y(normalize)))
    /\ pushed' = pushed + 1
    /\ tick' = TickAfterPut(pushed + 1)
    /\ UNCHANGED <<config, sample, mem, ppc, timestep, sim_step_counter, exit_path, world, written,
                   queue, renderer, high_steps>>

\* the client puts the sentinel
ClientPutNone ==
    /\ ppc = "client"
    /\ pushed < MaxPuts
    /\ buffer' = Append(buffer, NoneItem)
    /\ pushed' = pushed + 1
    /\ tick' = TickAfterPut(0)
    /\ UNCHANGED <<config, sample, mem, ppc, timestep, sim_step_counter, exit_path, world, written,
                   queue, renderer, high_steps>>

NextPlotter == ClientPut \/ ClientPutNone \/ Feeder \/ Renderer

SpecPlotter == InitPlotter /\ [][NextPlotter]_vars

(***************************************************************************)
(* The properties.                                                         *)
(***************************************************************************)
CeilDiv(a, b) == (a + b - 1) \div b

\* the largest and the smallest entry of a raw column
Largest(v) == CHOOSE m \in Range(v) : \A c \in 1..Len(v) : v[c] <= m
Smallest(v) == CHOOSE m \in Range(v) : \A c \in 1..Len(v) : m <= v[c]

\* the column the sampler computes for term j and blue agent k (both 0-based)
\* of the visualized environment in world state w
ColumnOf(w, j, k) ==
    ValueColumn(critic, w, N, T, j + 1, k, sweep_x(normalize), sweep_y(normalize))

\* a heat map shows the grid made of raw column v: cell c is (v[c] - min) /
\* (max - min), cells in row-major order
ShowsGridOf(mesh, v) ==
    \A c \in 1..(RESOLUTION * RESOLUTION) :
        mesh[c] = <<v[c] - Smallest(v), Largest(v) - Smallest(v)>>

\* C1 as stated: when a call_back that started after M >= 1 tuples had been
\* put (and none of them taken yet) has returned, and no put was made while it
\* ran, it has called plot_value_fun exactly once, with the last of the M.
LatestWinsAsStated ==
    (rpc = "show" /\ tick.put # <<>> /\ 0 \notin Range(tick.put) /\ ~tick.pushed)
        => tick.draws = <<tick.put[Len(tick.put)]>>

\* C1: latest-wins.  When a call_back that started with M >= 1 tuples in the
\* pipe (no sentinel among them) has returned and no further item reached the
\* pipe while it ran, it has called plot_value_fun exactly once, with the last
\* of the M.
LatestWins ==
    (rpc = "show" /\ tick.start # <<>> /\ 0 \notin Range(tick.start) /\ ~tick.arrived)
        => tick.draws = <<tick.start[Len(tick.start)]>>

\* a call_back that started with three tuples in the pipe has drawn the third
LatestWinsWitness ==
    /\ rpc = "show"
    /\ Len(tick.start) = 3
    /\ ~tick.arrived
    /\ tick.draws = <<tick.start[3]>>
    /\ ShowsGridOf(artists.pcolormeshes[1], ColumnOf(3, 0, 0))

\* C2: sentinel propagation.  plot_value_fun is never called once terminate() has
\* closed the figures.
NoDrawAfterSentinel == ~draw_after_close

\* C3: shutdown handshake.  When main() has left the loop and closed the
\* simulator, the sentinel has been put: it is in the queue (buffer or pipe) or
\* the renderer has taken it.
ShutdownHandshake ==
    ppc = "done" => (terminated \/ \E i \in 1..Len(queue \o buffer) :
                                      (queue \o buffer)[i].kind = "None")

\* C4: the producer never blocks.  Wherever the renderer is and however long the
\* queue, main() can take its next step: at a visualisation step the queue is not
\* full, so the put goes through, and the environment step and every other step
\* of the loop are enabled.
ProducerNeverBlocks ==
    /\ (ppc = "vis" /\ IsVisualizationStep(sim_step_counter, K)) => ~Full(queue \o buffer)
    /\ ppc = "step" => ENABLED PEnvStep
    /\ ppc \in {"while", "video", "mem", "inc", "close"}
          => ENABLED (PLoopCheck \/ PVideoGuard \/ PMemCheck \/ PIncrement \/ PClose)

\* main() is about to put a fourth tuple and the renderer has not run at all
ProducerNeverBlocksWitness ==
    /\ rpc = "start"
    /\ ppc = "vis"
    /\ IsVisualizationStep(sim_step_counter, K)
    /\ Len(queue \o buffer) = 3
    /\ queue # <<>>
    /\ world = 4

\* C5 as stated: when the drain loop of call_back has ended without meeting the
\* sentinel, the queue was empty at that instant and the loop has taken every
\* item that had been put when the call started and every item put while it
\* ran.
DrainEmptiesChannelAsStated ==
    tick.drain_end # -1 => (tick.drain_end = 0 /\ tick.got = tick.put)

\* C5: a tick drains the whole channel.  When the drain loop of call_back has
\* ended without meeting the sentinel, the pipe was empty at that instant and
\* the loop has taken every item that was in the pipe at the start of the call
\* and every item that reached the pipe while it ran.
DrainEmptiesChannel ==
    tick.drain_end # -1 => (tick.drain_end = 0 /\ tick.got = tick.seen)

\* a drain that took two items, one of which reached the pipe while it ran
DrainEmptiesChannelWitness ==
    /\ rpc = "after_loop"
    /\ tick.drain_end = 0
    /\ Len(tick.got) >= 2
    /\ Len(tick.seen) > Len(tick.start)
    /\ tick.start # <<>>

\* C6: cadence.  At the loop head after n iterations exactly ceil(n/K) tuples
\* have been put; an iteration puts one tuple if its counter is a multiple of K
\* and none otherwise.
Cadence ==
    /\ ppc \in {"while", "step", "video", "vis"}
          => pushed = CeilDiv(sim_step_counter, K)
    /\ ppc = "mem" => (sim_step_counter % K = 0
                        /\ pushed = (sim_step_counter \div K) + 1)
    /\ ppc = "inc" => pushed = CeilDiv(sim_step_counter + 1, K)

\* three iterations at the shipped interval have put two tuples
CadenceWitness ==
    /\ ppc = "while"
    /\ K = VISUALIZATION_INTERVAL
    /\ sim_step_counter = 3
    /\ pushed = 2

\* C7: the memory guard.  While memory usage stays above 90% the loop makes at
\* most K environment steps; the loop breaks by memory only at the check that
\* follows a put and only above 90%; after that break no step and no put is made
\* and env.close() is what remains.
MemoryGuard ==
    /\ [](/\ high_steps <= K
          /\ exit_path = "memory" => (mem > MemoryThreshold /\ ppc \in {"close", "done"})
          /\ (exit_path = "memory" /\ ppc = "close") => ENABLED PClose)
    /\ [][/\ (exit_path' = "memory" /\ exit_path # "memory") => ppc = "mem"
          /\ exit_path = "memory" => (world' = world /\ pushed' = pushed
                                      /\ exit_path' = "memory")]_vars

\* usage rose to 91% right after a check, and the loop broke a whole interval later
MemoryGuardWitness ==
    /\ exit_path = "memory"
    /\ ppc = "done"
    /\ K >= 2
    /\ high_steps = K
    /\ mem = 910

\* C8 as stated: when recording, the loop never makes more than video_length
\* environment steps, for every video_length >= 0.
VideoGuardEveryLength ==
    (video /\ video_length >= 0) => world <= video_length

\* C8: when recording with video_length >= 1, the loop never makes more than
\* video_length environment steps, and once it has made that many it has left by
\* the video path.
VideoGuard ==
    (video /\ video_length >= 1)
        => /\ world <= video_length
           /\ (world = video_length /\ ppc # "video") => exit_path = "video"

\* a recording of length 2 has ended after two steps
VideoGuardWitness ==
    /\ video
    /\ video_length = 2
    /\ world = 2
    /\ timestep = 2
    /\ exit_path = "video"
    /\ ppc = "done"

\* C9: sampler output size.  Every tuple put carries T * min(P, N) grids of
\* RESOLUTION^2 cells, the number of artists the renderer creates.
SamplerOutputSize ==
    /\ \A i \in 1..Len(queue \o buffer) :
          /\ Len((queue \o buffer)[i].values) = T * Min(P, N)
          /\ \A g \in 1..Len((queue \o buffer)[i].values) :
                Len(Ravel((queue \o buffer)[i].values[g])) = RESOLUTION * RESOLUTION
    /\ rpc \in {"show", "drain", "after_loop"}
          => Len(artists.pcolormeshes) = T * Min(P, N)

\* C10: world-state decomposition.  plot_value_fun splits a snapshot of length
\* 3N + 3N + 2 into N blue rows from entries [0, 3N), N red rows from entries
\* [3N, 6N) and the ball from the last two entries, each entry in one part.
WorldStateDecomposition ==
    plot_locals.ego_world_state # <<>> =>
        LET ws == plot_locals.ego_world_state
            blue == plot_locals.blue_pos_w
            red == plot_locals.red_pos_w
            ball == plot_locals.ball_pos_w
        IN  /\ Len(ws) = 3 * N + 3 * N + 2
            /\ DOMAIN blue = 1..N
            /\ DOMAIN red = 1..N
            /\ \A r \in 1..N :
                  /\ blue[r] = <<ws[3 * (r - 1) + 1], ws[3 * (r - 1) + 2], ws[3 * (r - 1) + 3]>>
                  /\ red[r] = <<ws[3 * N + 3 * (r - 1) + 1], ws[3 * N + 3 * (r - 1) + 2],
                                ws[3 * N + 3 * (r - 1) + 3]>>
            /\ ball = <<ws[6 * N + 1], ws[6 * N + 2]>>
            /\ Ravel(blue) \o Ravel(red) \o ball = ws

\* a snapshot of length 20 has been split into (3,3), (3,3) and (2,)
WorldStateDecompositionWitness ==
    /\ N = 3
    /\ Len(plot_locals.ego_world_state) = 20
    /\ Len(plot_locals.blue_pos_w) = 3
    /\ Len(plot_locals.red_pos_w) = 3
    /\ Len(plot_locals.ball_pos_w) = 2
    /\ plot_locals.red_pos_w[3] = <<plot_locals.ego_world_state[16],
                                    plot_locals.ego_world_state[17],
                                    plot_locals.ego_world_state[18]>>

\* C11: min-max normalisation.  For every raw column of a sample whose largest
\* entry exceeds its smallest one, the grid made of it has every cell in [0, 1],
\* the cell of the largest entry equal to 1, the cell of the smallest entry
\* equal to 0 and every cell equal to (v - min) / (max - min), with the minimum
\* and the maximum taken over that column alone.
Normalization ==
    /\ Len(sample.scaled_values) = Len(sample.values)
    /\ \A j \in 1..Len(sample.values) :
          LET v == sample.values[j]
              grid == sample.scaled_values[j]
              hi == Largest(v)
              lo == Smallest(v)
          IN  hi > lo =>
                \A r \in 1..RESOLUTION : \A c \in 1..RESOLUTION :
                    LET raw == v[(r - 1) * RESOLUTION + c]
                        cell == grid[r][c]
                    IN  /\ cell[2] > 0
                        /\ 0 <= cell[1] /\ cell[1] <= cell[2]
                        /\ cell[1] * (hi - lo) = (raw - lo) * cell[2]
                        /\ raw = hi => cell[1] = cell[2]
                        /\ raw = lo => cell[1] = 0

\* a sample holds two non-constant columns of different ranges, one of them with
\* an entry below zero
NormalizationWitness ==
    \E j, k \in 1..Len(sample.values) :
        /\ Largest(sample.values[j]) > Smallest(sample.values[j])
        /\ Largest(sample.values[k]) > Smallest(sample.values[k])
        /\ Largest(sample.values[j]) - Smallest(sample.values[j])
               # Largest(sample.values[k]) - Smallest(sample.values[k])
        /\ Smallest(sample.values[j]) < 0

\* a cell that is a number of [0, 1]: not the nan of a division of zero by zero
UnitCell(cell) == cell[2] > 0 /\ 0 <= cell[1] /\ cell[1] <= cell[2]

\* C12: never a non-finite grid.  Every grid of every message in the queue, of
\* the message the renderer holds and of every heat map it has drawn has all
\* its cells in [0, 1], whatever the critic returns, a constant grid included:
\* no grid with the undefined cells of a division by zero is put or drawn.
DefinedGrids ==
    /\ \A i \in 1..Len(queue \o buffer) : \A j \in 1..Len((queue \o buffer)[i].values) :
          \A r, c \in 1..RESOLUTION : UnitCell((queue \o buffer)[i].values[j][r][c])
    /\ \A j \in 1..Len(last_item.values) :
          \A r, c \in 1..RESOLUTION : UnitCell(last_item.values[j][r][c])
    /\ \A i \in 1..Len(artists.pcolormeshes) :
          \A c \in 1..(RESOLUTION * RESOLUTION) : UnitCell(artists.pcolormeshes[i][c])

\* the state of the renderer process: Uninitialized until __call__ has built the
\* figure and the artists, Initialized while the event loop idles, Rendering
\* inside call_back, Terminated when plt.show() has returned
Lifecycle ==
    CASE rpc \in {"start", "init_plot", "timer"} -> "Uninitialized"
      [] rpc = "show" -> "Initialized"
      [] rpc \in {"drain", "after_loop", "plot"} -> "Rendering"
      [] rpc = "exited" -> "Terminated"

\* the order Uninitialized -> Initialized -> Rendering -> Terminated, the event
\* loop going idle again after a tick that did not terminate
LifecycleSteps ==
    {<<"Uninitialized", "Initialized">>, <<"Initialized", "Rendering">>,
     <<"Rendering", "Initialized">>, <<"Rendering", "Terminated">>}

\* C13: renderer lifecycle order.  The renderer passes from Uninitialized to
\* Initialized to Rendering (ticks alternating with the idle event loop) to
\* Terminated and along no other edge; the figure and the artists are built
\* once, both before the renderer is Initialized; and although the timer is
\* started before the artists exist, no tick runs, updates or draws an artist
\* before reset_plot has built them.
LifecycleOrder ==
    /\ [][Lifecycle' # Lifecycle => <<Lifecycle, Lifecycle'>> \in LifecycleSteps]_vars
    /\ [][artists' # artists =>
             \/ Lifecycle = "Uninitialized" /\ created'.artists = 1
             \/ Lifecycle = "Rendering" /\ created.artists = 1]_vars
    /\ [](/\ created.figure <= 1
          /\ created.artists <= 1
          /\ created.artists <= created.figure
          /\ Lifecycle # "Uninitialized" => created = [figure |-> 1, artists |-> 1]
          /\ tick.draws # <<>> => created.artists = 1)

\* the renderer has been through all four states: built once, it drew a message
\* in a tick, idled, and a later tick read the sentinel and ended the process
LifecycleOrderWitness ==
    /\ rpc = "exited"
    /\ created = [figure |-> 1, artists |-> 1]
    /\ plot_locals.ego_world_state # <<>>
    /\ tick.draws = <<>>

PoseIn(ws, a) == <<ws[3 * (a - 1) + 1], ws[3 * (a - 1) + 2], ws[3 * (a - 1) + 3]>>

\* subplot i (1-based) shows message m: its heat map is grid i of m, its four
\* scatter layers are the ball, the subplot's own blue agent, the blue team and
\* the red team of m's world state, its heading segments those of all agents
ShowsMessage(a, i, m) ==
    /\ a.pcolormeshes[i] = Concat(m.values[i])
    /\ a.scatters[i] = <<m.ws[6 * N + 1], m.ws[6 * N + 2]>>
    /\ a.scatterOthers[i] = <<PoseIn(m.ws, ((i - 1) % P) + 1)[1],
                              PoseIn(m.ws, ((i - 1) % P) + 1)[2]>>
    /\ a.scatterBs[i] = [r \in 1..N |-> <<PoseIn(m.ws, r)[1], PoseIn(m.ws, r)[2]>>]
    /\ a.scatterRs[i] = [r \in 1..N |-> <<PoseIn(m.ws, N + r)[1], PoseIn(m.ws, N + r)[2]>>]
    /\ a.lines[i] = [r \in 1..(2 * N) |-> PoseIn(m.ws, r)]

\* the world state that env.step had returned when put number s was made: the
\* put of iteration (s - 1) * K of the loop (0-based), made after (s - 1) * K + 1 steps
StateAtPush(s) == WorldState(N, (s - 1) * K + 1)

FracLeq(a, b) == a[1] * b[2] <= b[1] * a[2]

\* the smallest and the largest coordinate of a RESOLUTION x RESOLUTION mesh
MeshMin(m) ==
    CHOOSE a \in Range(Ravel(m)) : \A b \in Range(Ravel(m)) : FracLeq(a, b)
MeshMax(m) ==
    CHOOSE a \in Range(Ravel(m)) : \A b \in Range(Ravel(m)) : FracLeq(b, a)

\* C15 as stated: the mesh reset_plot draws (the sweep grid of the sampler)
\* spans exactly -(field_length + border_offset) .. field_length + border_offset
\* on the length axis and -(field_width + border_offset) .. field_width +
\* border_offset on the width axis, and -1 .. 1 on both in normalized mode.
GridExtentsAsStated ==
    geometry.x # <<>> =>
        LET xlo == MeshMin(geometry.x)
            xhi == MeshMax(geometry.x)
            ylo == MeshMin(geometry.y)
            yhi == MeshMax(geometry.y)
        IN  IF normalize
            THEN /\ xlo[1] = -100 * xlo[2] /\ xhi[1] = 100 * xhi[2]
                 /\ ylo[1] = -100 * ylo[2] /\ yhi[1] = 100 * yhi[2]
            ELSE /\ xlo[1] = -(field_length + border_offset) * xlo[2]
                 /\ xhi[1] = (field_length + border_offset) * xhi[2]
                 /\ ylo[1] = -(field_width + border_offset) * ylo[2]
                 /\ yhi[1] = (field_width + border_offset) * yhi[2]

\* C15: spatial grid extents.  The mesh is symmetric about 0 on each axis; it
\* spans exactly -(field_length + SCALING * border_offset) .. field_length +
\* SCALING * border_offset on the length axis and -(field_width + SCALING *
\* border_offset) .. field_width + SCALING * border_offset on the width axis,
\* the border being scaled as the field is, and -1 .. 1 on both axes in
\* normalized mode.
GridExtents ==
    geometry.x # <<>> =>
        LET xlo == MeshMin(geometry.x)
            xhi == MeshMax(geometry.x)
            ylo == MeshMin(geometry.y)
            yhi == MeshMax(geometry.y)
        IN  /\ xlo[1] * xhi[2] = -xhi[1] * xlo[2]
            /\ ylo[1] * yhi[2] = -yhi[1] * ylo[2]
            /\ IF normalize
               THEN /\ xhi[1] = 100 * xhi[2]
                    /\ yhi[1] = 100 * yhi[2]
               ELSE /\ xhi[1] * ScalingDen
                          = (field_length * ScalingDen + border_offset * ScalingNum) * xhi[2]
                    /\ yhi[1] * ScalingDen
                          = (field_width * ScalingDen + border_offset * ScalingNum) * yhi[2]

\* reset_plot has drawn the mesh of the shipped mode: 3.0 m and 2.1 m either way
GridExtentsWitness ==
    /\ ~normalize
    /\ geometry.x # <<>>
    /\ MeshMax(geometry.x)[1] = 300 * MeshMax(geometry.x)[2]
    /\ MeshMin(geometry.y)[1] = -210 * MeshMin(geometry.y)[2]

\* the pose (x, y, heading) of agent a (1-based, blue agents first) in a snapshot
\* C16: a tick redraws only when it found a message.  A call_back that took no
\* item from the queue leaves the data of every artist as it was and draws
\* nothing; a call_back that took at least one message sets the heat map, the
\* four scatter layers and the heading segments of every one of the T * P
\* subplots from the last message it took, and draws once; and no artist
\* changes while the queue is drained or between two ticks.
TickRedraw ==
    /\ [][(rpc = "after_loop" /\ rpc' # "after_loop") =>
             IF tick.got = <<>>
             THEN artists' = artists /\ tick'.draws = <<>>
             ELSE /\ last_item.kind = "msg"
                  /\ last_item.seq = tick.got[Len(tick.got)]
                  /\ tick'.draws = <<last_item.seq>>
                  /\ DOMAIN artists'.pcolormeshes = 1..(T * P)
                  /\ \A i \in 1..(T * P) : ShowsMessage(artists', i, last_item)]_vars
    /\ [][(rpc \in {"show", "drain"}) =>
             (artists' = artists /\ Len(tick'.draws) <= Len(tick.draws))]_vars

\* a call_back has taken two messages from the queue and every subplot shows the
\* second of them
TickRedrawWitness ==
    /\ rpc = "show"
    /\ Len(tick.got) = 2
    /\ tick.draws = <<tick.got[2]>>
    /\ Len(artists.pcolormeshes) = T * P
    /\ artists.scatters[T * P] = <<plot_locals.ego_world_state[6 * N + 1],
                                    plot_locals.ego_world_state[6 * N + 2]>>

\* C17: the sampler leaves the observations alone.  No write of
\* compute_all_value_fun goes into the storage of the environment's critic or
\* neighbor-critic tensor, so both read after the call as before it; every
\* write goes into a copy made for one (term, agent) pair, not into the tensor
\* the pair's row was taken from, and no two pairs write into the same copy.
NoObservationMutation ==
    LET writes == sample.writes
    IN  /\ \A i \in 1..Len(writes) :
              /\ writes[i].storage \notin EnvStorages
              /\ writes[i].source \notin EnvStorages
              /\ writes[i].storage # writes[i].source
        /\ \A i, j \in 1..Len(writes) :
              i # j => writes[i].storage # writes[j].storage

\* a sample of two terms and three players has written into six grids
NoObservationMutationWitness ==
    /\ T = 2
    /\ P = 3
    /\ Len(sample.writes) = 6
    /\ sample.writes[5].term = 2
    /\ sample.writes[5].player = 1

\* candidate c of a run qualifies: its binding, if it names one, is installed,
\* matplotlib loads it, and it opens the window of a GUI toolkit
Qualifies(c) ==
    LET candidate == Candidates(gui.env_backend)[c]
    IN  /\ candidate.checker # "None" => candidate.checker \in gui.avail
        /\ candidate.backend \in HeadlessBackends
              \/ candidate.backend \in gui.usable
        /\ Toolkit(candidate.backend) # "none"

\* the candidates in the order of the claim
FixedOrder == <<"Qt5Agg", "QtAgg", "TkAgg", "WXAgg", "GTK3Agg">>

\* C18: GUI backend selection.  The candidates are the value of MPLBACKEND, if
\* it has one, and then Qt5Agg, QtAgg, TkAgg, WXAgg, GTK3Agg, tried in that
\* order; _force_gui_backend returns at the first candidate that qualifies,
\* with that backend selected; it raises when no candidate qualifies and only
\* then; and it never returns with a backend selected that opens no window,
\* whatever MPLBACKEND names.
BackendSelection ==
    LET candidates == Candidates(gui.env_backend)
        n == Len(candidates)
    IN  /\ [c \in 1..n |-> candidates[c].backend]
              = (IF gui.env_backend # "" THEN <<gui.env_backend>> ELSE <<>>) \o FixedOrder
        /\ \A c \in 1..n : (c < gui.i) => ~Qualifies(c)
        /\ LET passed == IF gui.outcome = "returned" THEN gui.i ELSE gui.i - 1
                loadable == SelectSeq([c \in 1..passed |-> candidates[c]],
                                      LAMBDA e : e.checker # "None" => e.checker \in gui.avail)
            IN  gui.used = [c \in 1..Len(loadable) |-> loadable[c].backend]
        /\ gui.outcome = "returned" =>
              /\ gui.i <= n
              /\ Qualifies(gui.i)
              /\ gui.current = candidates[gui.i].backend
              /\ Toolkit(gui.current) # "none"
        /\ gui.outcome = "raised" =>
              /\ gui.i = n + 1
              /\ \A c \in 1..n : ~Qualifies(c)
        /\ (gui.outcome = "running" /\ gui.i > n) => \A c \in 1..n : ~Qualifies(c)

\* MPLBACKEND names a headless backend, which matplotlib loaded, and Qt has no
\* binding: the function went on and returned with TkAgg
BackendSelectionWitness ==
    /\ gui.env_backend = "Agg"
    /\ "qt" \notin gui.avail
    /\ gui.used = <<"Agg", "TkAgg">>
    /\ gui.outcome = "returned"
    /\ gui.current = "TkAgg"

\* the end points of the segments reset_plot has drawn
FieldPoints ==
    {geometry.fieldLines[i][e] : i \in 1..Len(geometry.fieldLines), e \in 1..2}

\* C19: coordinate-transform consistency.  Whichever way the normalisation flag
\* is set, the cell of the heat map drawn at plot coordinate (x, y) is the cell
\* whose critic input was (x / field_length, y / field_width), and the heat
\* map, drawn in the coordinates of the field lines, covers them: every end
\* point of a field line and the centre circle lie within the mesh's extent.
CoordinateConsistency ==
    geometry.x # <<>> =>
        LET x == Ravel(geometry.x)
            y == Ravel(geometry.y)
        IN  /\ \A c \in 1..(RESOLUTION * RESOLUTION) :
                  /\ sweep_x(normalize)[c][1] * x[c][2] * field_length
                        = x[c][1] * sweep_x(normalize)[c][2]
                  /\ sweep_y(normalize)[c][1] * y[c][2] * field_width
                        = y[c][1] * sweep_y(normalize)[c][2]
            /\ \A pt \in FieldPoints :
                  /\ FracLeq(MeshMin(geometry.x), <<pt[1], 1>>)
                  /\ FracLeq(<<pt[1], 1>>, MeshMax(geometry.x))
                  /\ FracLeq(MeshMin(geometry.y), <<pt[2], 1>>)
                  /\ FracLeq(<<pt[2], 1>>, MeshMax(geometry.y))
            /\ FracLeq(<<geometry.fieldcircle, 1>>, MeshMax(geometry.x))
            /\ FracLeq(<<geometry.fieldcircle, 1>>, MeshMax(geometry.y))

\* C20: producer and renderer agree on the order of the grids.  Once
\* plot_value_fun has drawn the message of world state w, the heat map of
\* subplot (row j, column k), which it read at index k + j * min(P, N) of the
\* message, shows the grid the sampler computed in w for term j and blue agent
\* k, for every P and N, P > N included.
GridOrderAgreement ==
    plot_locals.ego_world_state # <<>> =>
        \E w \in 0..world :
            /\ plot_locals.ego_world_state = WorldState(N, w)
            /\ \A j \in 0..(T - 1) : \A k \in 0..(Min(P, N) - 1) :
                  ShowsGridOf(artists.pcolormeshes[k + j * Min(P, N) + 1],
                              ColumnOf(w, j, k))

\* C21: rendered frames never go backwards.  Messages are numbered in push
\* order; whatever the interleaving of pushes and ticks, the messages passed to
\* plot_value_fun so far are messages that were pushed, each one pushed later
\* than the one rendered before it: none is rendered twice, none after a
\* message pushed later.
RenderedInOrder ==
    /\ \A i \in 1..Len(rendered) : rendered[i] \in 1..pushed
    /\ \A i, j \in 1..Len(rendered) : i < j => rendered[i] < rendered[j]

\* three frames have been rendered, a stale message was skipped between two of
\* them, and a tick that found the queue empty has since returned
RenderedInOrderWitness ==
    /\ Len(rendered) >= 3
    /\ \E i \in 1..(Len(rendered) - 1) : rendered[i + 1] > rendered[i] + 1
    /\ rpc = "show"
    /\ tick.start = <<>>
    /\ tick.draws = <<>>

\* C22: the final frame is eventually shown.  Once main() has left the play
\* loop (it never puts a sentinel) having pushed at least one message, and the
\* plotter's timer keeps ticking, the queue becomes empty and the message
\* rendered last is the one pushed last, and it stays so: the last message
\* does not stay queued forever.
FinalFrameShown ==
    (ppc \in {"close", "done"} /\ pushed > 0)
        ~> [](/\ queue = <<>>
              /\ buffer = <<>>
              /\ rendered # <<>>
              /\ rendered[Len(rendered)] = pushed)

\* main() is done, and a call_back that found the last two messages queued,
\* after an earlier frame had been rendered, has drawn the last one
FinalFrameShownWitness ==
    /\ ppc = "done"
    /\ pushed >= 3
    /\ Len(tick.start) = 2
    /\ ~tick.pushed
    /\ rpc = "show"
    /\ queue = <<>>
    /\ buffer = <<>>
    /\ Len(rendered) >= 2
    /\ rendered[Len(rendered)] = pushed
=============================================================================
